---- MODULE Spec2Model ----
(***************************************************************************)
(* One call session of the Twilio <-> OpenAI Realtime relay: the closure   *)
(* state created by the '/media-stream' websocket handler, the handlers    *)
(* registered on the telephony websocket (`connection`) and on the model   *)
(* websocket (`openAiWs`), the delayed initializeSession timer and the     *)
(* awaited tool providers.  Each handler is one action; a handler that      *)
(* awaits a provider is split at the await.                                 *)
(*                                                                         *)
(* The repository holds three variants of the handler, which differ only   *)
(* in the tool dispatch:                                                    *)
(*   "A"  src/index.js lines 1-626      (if/else chain, four tools)         *)
(*   "B"  src/index.js lines 628-1019   (handleFunctionCall, awaited)       *)
(*   "C"  src/unnamed/part_002          (handleFunctionCall, not awaited)   *)
(***************************************************************************)
EXTENDS Integers, Sequences, FiniteSets, TLC

\* ------------------------------------------------------------------ bounds
\* Largest timestamp the telephony side puts on a media event.
MaxTs == 2
\* Largest number of playback marks outstanding at once.
MaxQueue == 2
\* Largest number of tool-provider calls awaited at once.
MaxPending == 1

\* --------------------------------------------------------------- constants
\* JavaScript null for the string-valued closure variables.
Null == "null"
\* JavaScript null for responseStartTimestampTwilio (timestamps are >= 0).
NullTs == -1

\* JavaScript undefined, the value read from a field the message lacks.
Undefined == "undefined"

Variants == {"A", "B", "C"}

\* Stream identifiers a telephony start event can carry.
StreamSids == {"MZ1"}
\* Conversation item ids the model puts on audio deltas.
Items == {"item_A", "item_B"}
\* Payload of a telephony media event.
MediaPayloads == {"ulaw_1", "ulaw_2"}

VARIABLES
    variant,                        \* which variant of the handler runs
    streamSid,                      \* let streamSid
    latestMediaTimestamp,           \* let latestMediaTimestamp
    lastAssistantItem,              \* let lastAssistantItem
    markQueue,                      \* let markQueue
    responseStartTimestampTwilio,   \* let responseStartTimestampTwilio
    openAiWsState,                  \* openAiWs.readyState
    connectionState,                \* readyState of the telephony websocket
    initTimer,                      \* setTimeout(initializeSession, 100)
    pending,                        \* tool calls suspended at an await
    sent,                           \* the send calls of the last handler, in order
    lastEvent,                      \* the event the last handler ran for
    closeCalls,                     \* history: number of openAiWs.close() calls
    truncated,                      \* history: item ids named in a truncate so far
    itemStart,                      \* history: item id -> latestMediaTimestamp at its first forwarded fragment
    other                           \* the closure state of a second, concurrent session

sessionVars == <<streamSid, latestMediaTimestamp, lastAssistantItem, markQueue,
                 responseStartTimestampTwilio>>
vars == <<variant, streamSid, latestMediaTimestamp, lastAssistantItem, markQueue,
          responseStartTimestampTwilio, openAiWsState, connectionState, initTimer,
          pending, sent, lastEvent, closeCalls, truncated, itemStart, other>>

\* ------------------------------------------------------- JavaScript helpers
\* !x for a value that is null or a number: null and 0 are falsy.
FalsyTs(x) == x = NullTs \/ x = 0
\* Boolean(x) for a value that is null or a string: null and "" are falsy.
Truthy(x) == x # Null /\ x # ""

\* Buffer.from(delta, 'base64').toString('base64'): decode, then encode again.
\* A canonical payload comes back unchanged; one with a dangling sextet comes
\* back padded.
Reencode(delta) ==
    CASE delta = "QUI" -> "QUI="
      [] OTHER -> delta


\* ------------------------------------------------------------ wire messages
\* Messages the handlers pass to openAiWs.send.  `to` names the websocket whose
\* send is called; it is not part of the message.
SessionUpdate == [to |-> "openAiWs", type |-> "session.update"]
InitialConversationItem ==
    [to |-> "openAiWs", type |-> "conversation.item.create", item |-> "message"]
ResponseCreate == [to |-> "openAiWs", type |-> "response.create"]
\* Mutant: every forwarded frame carries the same payload.
AudioAppend_Stale(payload) ==
    [to |-> "openAiWs", type |-> "input_audio_buffer.append", audio |-> "ulaw_1"]

\* JSON.stringify leaves out a key whose value is undefined.
AudioAppend(payload) ==
    IF payload = Undefined
    THEN [to |-> "openAiWs", type |-> "input_audio_buffer.append"]
    ELSE [to |-> "openAiWs", type |-> "input_audio_buffer.append", audio |-> payload]
\* Mutant: every result carries the same call id.
FunctionCallOutput_FixedId(callId, output) ==
    [to |-> "openAiWs", type |-> "conversation.item.create", item |-> "function_call_output",
     call_id |-> "call_1", output |-> output]

FunctionCallOutput(callId, output) ==
    [to |-> "openAiWs", type |-> "conversation.item.create", item |-> "function_call_output",
     call_id |-> callId, output |-> output]

\* Messages the handlers pass to connection.send; their `event` field is
\* written `type`, so that one test reads the kind of every message.
MarkEvent ==
    [to |-> "connection", type |-> "mark", streamSid |-> streamSid, name |-> "responsePart"]
ClearEvent == [to |-> "connection", type |-> "clear", streamSid |-> streamSid]
AudioDelta(delta) ==
    [to |-> "connection", type |-> "media", streamSid |-> streamSid, payload |-> Reencode(delta)]

\* The last handler's sends on each websocket, in order.
IsToOpenAi(m) == m.to = "openAiWs"
IsToTwilio(m) == m.to = "connection"
ToOpenAi == SelectSeq(sent, IsToOpenAi)
ToTwilio == SelectSeq(sent, IsToTwilio)

\* --------------------------------------------------------- inbound events
\* Entries of response.done's response.output.
MessageItem ==
    [type |-> "message", name |-> "", arguments |-> "", call_id |-> "", status |-> "completed"]
FunctionCall(name, arguments, callId, status) ==
    [type |-> "function_call", name |-> name, arguments |-> arguments,
     call_id |-> callId, status |-> status]

\* Events of the model websocket.
Delta(delta, itemId) ==
    [src |-> "openai", type |-> "response.audio.delta", delta |-> delta, item_id |-> itemId]
SpeechStarted == [src |-> "openai", type |-> "input_audio_buffer.speech_started"]
Done(output) == [src |-> "openai", type |-> "response.done", hasOutput |-> TRUE, output |-> output]
DoneNoOutput == [src |-> "openai", type |-> "response.done", hasOutput |-> FALSE, output |-> <<>>]
ErrorEvent == [src |-> "openai", type |-> "error"]
SessionCreated == [src |-> "openai", type |-> "session.created"]
UnparseableOpenAi == [src |-> "openai", type |-> "unparseable"]

\* Tool names the model may ask for: the registered ones and one that is not.
ToolNames == {"generate_horoscope", "bestBuySpecificSearch", "bestBuyGeneralSearch",
              "fetchPerplexityResponse", "doesNotExist"}
\* Argument payloads: one JSON.parse accepts, one it rejects.
ArgPayloads == {"{}", "{"}
Statuses == {"completed", "in_progress"}

\* The audio side of the model's events: deltas with every item id (and none),
\* with a canonical, a non-canonical and an empty payload; caller speech.
AudioEvents ==
    {Delta("QUJD", i) : i \in Items \cup {Null}}
    \cup {Delta("QUI", "item_A"), Delta("", "item_A"), SpeechStarted}

\* The tool side: response.done with no output, with no function call, with
\* one function call of every name, payload and status, and with two.
ToolEvents ==
    {DoneNoOutput, Done(<<>>), Done(<<MessageItem>>)}
    \cup {Done(<<FunctionCall(n, a, "call_1", st)>>) :
            n \in ToolNames, a \in ArgPayloads, st \in Statuses}
    \cup {Done(<<MessageItem, FunctionCall(n, "{}", "call_2", "completed")>>) :
            n \in {"fetchPerplexityResponse", "bestBuySpecificSearch"}}
    \cup {Done(<<FunctionCall("doesNotExist", "{}", "call_1", st),
                 FunctionCall("generate_horoscope", "{}", "call_2", "completed")>>) :
            st \in Statuses}
    \cup {Done(<<FunctionCall("fetchPerplexityResponse", "{}", "call_1", st),
                 FunctionCall("fetchPerplexityResponse", "{}", "call_2", "completed")>>) :
            st \in Statuses}

\* Events of the telephony websocket (data.event is written `type`).
\* Telephony timestamps do not run backwards within a stream.
Media(timestamp, payload) ==
    [src |-> "twilio", type |-> "media", timestamp |-> timestamp, payload |-> payload]
Start(sid) == [src |-> "twilio", type |-> "start", streamSid |-> sid]
Mark == [src |-> "twilio", type |-> "mark"]
Stop == [src |-> "twilio", type |-> "stop"]
Dtmf == [src |-> "twilio", type |-> "dtmf"]
UnparseableTwilio == [src |-> "twilio", type |-> "unparseable"]

MediaEvents ==
    {Media(t, p) : t \in latestMediaTimestamp..MaxTs, p \in MediaPayloads}
StreamEvents ==
    MediaEvents \cup {Start(s) : s \in StreamSids} \cup {Mark}

\* ------------------------------------------------------------------- Init
\* The closure of a session whose '/media-stream' handler has just run.
FreshSession ==
    [streamSid |-> Null, latestMediaTimestamp |-> 0, lastAssistantItem |-> Null,
     markQueue |-> <<>>, responseStartTimestampTwilio |-> NullTs,
     openAiWsState |-> "CONNECTING", connectionState |-> "OPEN", initTimer |-> "unset"]

\* The closure state when the '/media-stream' handler has run: the telephony
\* websocket is connected, the model websocket has just been constructed.
InitSession ==
    /\ streamSid = Null
    /\ latestMediaTimestamp = 0
    /\ lastAssistantItem = Null
    /\ markQueue = <<>>
    /\ responseStartTimestampTwilio = NullTs
    /\ openAiWsState = "CONNECTING"
    /\ connectionState = "OPEN"
    /\ initTimer = "unset"
    /\ pending = {}
    /\ sent = <<>>
    /\ lastEvent = [src |-> "server", type |-> "connection"]
    /\ closeCalls = 0
    /\ truncated = {}
    /\ other = FreshSession

\* The specifications differ in the variant they run and in the items whose
\* history they record (the domain of itemStart).
Init == InitSession /\ variant = "A" /\ itemStart = [i \in {} |-> NullTs]
InitHistory == InitSession /\ variant = "A" /\ itemStart = [i \in Items |-> NullTs]
InitTools == InitSession /\ variant \in Variants /\ itemStart = [i \in {} |-> NullTs]

\* A handler branch that sends nothing and changes no closure variable.
NoEffect ==
    /\ sent' = <<>>
    /\ UNCHANGED <<sessionVars, pending, truncated, itemStart>>

\* ----------------------------------------------- handleSpeechStartedEvent
\* Mutants of the guard: the queue test dropped; the conjunction weakened.
InterruptGuard_NoQueueTest == responseStartTimestampTwilio # NullTs
InterruptGuard_Either ==
    Len(markQueue) > 0 \/ responseStartTimestampTwilio # NullTs

\* The guard of the interruption.
InterruptGuard ==
    Len(markQueue) > 0 /\ responseStartTimestampTwilio # NullTs

\* Mutant: the elapsed time taken from the stream's start.
ElapsedTime_FromStreamStart == latestMediaTimestamp

\* const elapsedTime = latestMediaTimestamp - responseStartTimestampTwilio
ElapsedTime == latestMediaTimestamp - responseStartTimestampTwilio

TruncateEvent ==
    [to |-> "openAiWs", type |-> "conversation.item.truncate", item_id |-> lastAssistantItem,
     content_index |-> 0, audio_end_ms |-> ElapsedTime]

\* The truncate is sent only for a truthy lastAssistantItem.
TruncateSends == IF Truthy(lastAssistantItem) THEN <<TruncateEvent>> ELSE <<>>

handleSpeechStartedEvent ==
    IF InterruptGuard
    THEN /\ sent' = TruncateSends \o <<ClearEvent>>
         /\ markQueue' = <<>>
         /\ lastAssistantItem' = Null
         /\ responseStartTimestampTwilio' = NullTs
         /\ truncated' = truncated \cup ({TruncateSends[k].item_id : k \in 1..Len(TruncateSends)}
                                        \cap DOMAIN itemStart)
         /\ UNCHANGED <<streamSid, latestMediaTimestamp, pending, itemStart>>
    ELSE NoEffect

\* ---------------------------------------------------------------- sendMark
\* The connection.send calls and the markQueue after sendMark(connection, streamSid).
MarkSends == IF Truthy(streamSid) THEN <<MarkEvent>> ELSE <<>>
\* Mutant: the token is pushed whether or not the mark is sent.
MarkQueueAfterSendMark_Always == Append(markQueue, "responsePart")

MarkQueueAfterSendMark ==
    IF Truthy(streamSid) THEN Append(markQueue, "responsePart") ELSE markQueue

\* ------------------------------------------- response.audio.delta branch
\* Mutant: a fragment does not record the response start.
ResponseStartAfterDelta_Unset == responseStartTimestampTwilio

\* if (!responseStartTimestampTwilio) responseStartTimestampTwilio = latestMediaTimestamp
ResponseStartAfterDelta ==
    IF FalsyTs(responseStartTimestampTwilio)
    THEN latestMediaTimestamp
    ELSE responseStartTimestampTwilio

\* if (response.item_id) lastAssistantItem = response.item_id
LastAssistantItemAfterDelta(ev) ==
    IF Truthy(ev.item_id) THEN ev.item_id ELSE lastAssistantItem

\* Mutant: the fragment is forwarded twice.
AudioDeltaSends_Twice(ev) == <<AudioDelta(ev.delta), AudioDelta(ev.delta)>>

\* connection.send(JSON.stringify(audioDelta))
AudioDeltaSends(ev) == <<AudioDelta(ev.delta)>>

handleAudioDelta(ev) ==
    /\ sent' = AudioDeltaSends(ev) \o MarkSends
    /\ responseStartTimestampTwilio' = ResponseStartAfterDelta
    /\ lastAssistantItem' = LastAssistantItemAfterDelta(ev)
    /\ markQueue' = MarkQueueAfterSendMark
    /\ itemStart' = IF ev.item_id \in DOMAIN itemStart /\ itemStart[ev.item_id] = NullTs
                    THEN [itemStart EXCEPT ![ev.item_id] = latestMediaTimestamp]
                    ELSE itemStart
    /\ UNCHANGED <<streamSid, latestMediaTimestamp, pending, truncated>>

\* ------------------------------------------------------------ tool dispatch
\* JSON.parse(functionCall.arguments) returns (TRUE) or throws (FALSE).
ParseOk(arguments) == arguments = "{}"

\* Variant A: output.find(item => item.type === 'function_call')
IsFunctionCall(item) == item.type = "function_call"
\* Variants B, C: ... && item.status === 'completed'
IsCompletedFunctionCall(item) == item.type = "function_call" /\ item.status = "completed"

\* The entries find() chooses from: its result is the first, if any.
FoundCalls(ev) ==
    IF ~ev.hasOutput THEN <<>>
    ELSE IF variant = "A" THEN SelectSeq(ev.output, IsFunctionCall)
    ELSE SelectSeq(ev.output, IsCompletedFunctionCall)

\* The names whose branch awaits a provider, per variant.
AwaitedTools ==
    IF variant = "A"
    THEN {"bestBuySpecificSearch", "bestBuyGeneralSearch", "fetchPerplexityResponse"}
    ELSE {"fetchPerplexityResponse"}

\* Whether handling ev suspends at an await of a provider.
Awaits(ev) ==
    /\ ev.type = "response.done"
    /\ FoundCalls(ev) # <<>>
    /\ ParseOk(Head(FoundCalls(ev)).arguments)
    /\ Head(FoundCalls(ev)).name \in AwaitedTools

PendingCall(fc) == [call_id |-> fc.call_id, name |-> fc.name]

\* Variant A, the if/else chain on functionCall.name.  A parse failure throws
\* to the handler's catch; a name with no branch leaves functionCallOutput
\* undefined and nothing is sent.
DispatchA(fc) ==
    IF ~ParseOk(fc.arguments) THEN NoEffect
    ELSE IF fc.name = "generate_horoscope"
    THEN /\ sent' = <<FunctionCallOutput(fc.call_id, "horoscope"), ResponseCreate>>
         /\ UNCHANGED <<sessionVars, pending, truncated, itemStart>>
    ELSE IF fc.name \in AwaitedTools
    THEN /\ pending' = pending \cup {PendingCall(fc)}
         /\ sent' = <<>>
         /\ UNCHANGED <<sessionVars, truncated, itemStart>>
    ELSE NoEffect

\* Variants B and C, handleFunctionCall up to its first await.  TRUE when it
\* reaches the await of fetchPerplexityResponse; otherwise it has returned
\* (name not handled, or the parse failure caught and logged).
HandleFunctionCallAwaits(fc) ==
    fc.name = "fetchPerplexityResponse" /\ ParseOk(fc.arguments)

\* Variant B: await handleFunctionCall(functionCall); then response.create.
DispatchB(fc) ==
    /\ IF HandleFunctionCallAwaits(fc)
       THEN pending' = pending \cup {PendingCall(fc)} /\ sent' = <<>>
       ELSE UNCHANGED pending /\ sent' = <<ResponseCreate>>
    /\ UNCHANGED <<sessionVars, truncated, itemStart>>

\* Variant C: handleFunctionCall(functionCall) is not awaited; response.create
\* is sent in the same turn.
DispatchC(fc) ==
    /\ pending' = IF HandleFunctionCallAwaits(fc)
                  THEN pending \cup {PendingCall(fc)}
                  ELSE pending
    /\ sent' = <<ResponseCreate>>
    /\ UNCHANGED <<sessionVars, truncated, itemStart>>

handleResponseDone(ev) ==
    IF FoundCalls(ev) = <<>> THEN NoEffect
    ELSE CASE variant = "A" -> DispatchA(Head(FoundCalls(ev)))
           [] variant = "B" -> DispatchB(Head(FoundCalls(ev)))
           [] variant = "C" -> DispatchC(Head(FoundCalls(ev)))

\* Mutant: the resumed handler sends response.create in every variant.
SettleSends_CreateAgain(p, outcome) ==
    <<FunctionCallOutput(p.call_id, IF outcome = "ok" THEN "result" ELSE "apology"),
      ResponseCreate>>

\* What the suspended handler sends when the provider call of p settles.
\* Variant A: the providers catch their failures and return an apology
\* object, which is sent like a result; a rejected promise throws at the
\* await into the handler's catch, which logs.  Variants B, C: fetchPerplexityResponse
\* rethrows, handleFunctionCall catches and logs, no output is sent.
SettleSends(p, outcome) ==
    CASE variant = "A" ->
            IF outcome = "throws" THEN <<>>
            ELSE <<FunctionCallOutput(p.call_id, IF outcome = "ok" THEN "result" ELSE "apology"),
                   ResponseCreate>>
      [] variant = "B" ->
            IF outcome = "ok"
            THEN <<FunctionCallOutput(p.call_id, "result"), ResponseCreate>>
            ELSE <<ResponseCreate>>
      [] variant = "C" ->
            IF outcome = "ok"
            THEN <<FunctionCallOutput(p.call_id, "result")>>
            ELSE <<>>

\* ------------------------------------------------- openAiWs.on('message')
\* The model bounds: a delta that pushes a mark needs room in markQueue, a
\* tool call that awaits needs room in pending, and the model gives every
\* outstanding call its own call_id.
WithinBounds(ev) ==
    /\ (ev.type = "response.audio.delta" /\ Truthy(ev.delta) /\ Truthy(streamSid))
          => Len(markQueue) < MaxQueue
    /\ Awaits(ev) =>
          /\ Cardinality(pending) < MaxPending
          /\ \A p \in pending : p.call_id # Head(FoundCalls(ev)).call_id

\* Mutant: an event no branch tests for is taken for caller speech.
handleUnmatchedEvent_AsSpeechStarted == handleSpeechStartedEvent

\* An event whose type none of the three tests matches (error,
\* session.created, rate_limits.updated, ...): logged if listed in
\* LOG_EVENT_TYPES, nothing else.
handleUnmatchedEvent == NoEffect

\* Mutant: the event loop does not turn to other events while a handler is
\* suspended at an await.
EventLoopBusy_WhileAwaiting == pending # {}

\* Whether a suspended handler keeps the event loop from dispatching further
\* events.  The handler is an async function: at its await it returns a
\* promise to the emitter, which does not wait for it.
EventLoopBusy == FALSE

OpenAiWsOnMessage(ev) ==
    /\ openAiWsState = "OPEN"
    /\ ~EventLoopBusy
    /\ WithinBounds(ev)
    /\ lastEvent' = ev
    /\ CASE ev.type = "response.done" -> handleResponseDone(ev)
         [] ev.type = "response.audio.delta" /\ Truthy(ev.delta) -> handleAudioDelta(ev)
         [] ev.type = "input_audio_buffer.speech_started" -> handleSpeechStartedEvent
         [] OTHER -> handleUnmatchedEvent
    /\ UNCHANGED <<variant, other, openAiWsState, connectionState, initTimer, closeCalls>>

\* Mutant: the continuation also clears the marks, as an interruption does.
ProviderSettles_ClearsMarks(p, outcome) ==
    /\ p \in pending
    /\ pending' = pending \ {p}
    /\ lastEvent' = [src |-> "provider", type |-> outcome, call_id |-> p.call_id, name |-> p.name]
    /\ sent' = SettleSends(p, outcome)
    /\ markQueue' = <<>>
    /\ lastAssistantItem' = Null
    /\ UNCHANGED <<streamSid, latestMediaTimestamp, responseStartTimestampTwilio,
                   truncated, itemStart>>
    /\ UNCHANGED <<variant, other, openAiWsState, connectionState, initTimer, closeCalls>>

\* The continuation of a handler suspended at `await <provider>(...)`.
ProviderSettles(p, outcome) ==
    /\ p \in pending
    /\ pending' = pending \ {p}
    /\ lastEvent' = [src |-> "provider", type |-> outcome, call_id |-> p.call_id, name |-> p.name]
    /\ sent' = SettleSends(p, outcome)
    /\ UNCHANGED <<sessionVars, truncated, itemStart>>
    /\ UNCHANGED <<variant, other, openAiWsState, connectionState, initTimer, closeCalls>>

\* ---------------------------------------------------- openAiWs.on('open')
OpenAiWsOnOpen ==
    /\ openAiWsState = "CONNECTING"
    /\ openAiWsState' = "OPEN"
    /\ initTimer' = "armed"
    /\ lastEvent' = [src |-> "openai", type |-> "open"]
    /\ NoEffect
    /\ UNCHANGED <<variant, other, connectionState, closeCalls>>

\* initializeSession, run by the timer, then sendInitialConversationItem.
\* Mutant: response.create is sent before the initial conversation item.
InitializeSessionSends_CreateFirst ==
    <<SessionUpdate, ResponseCreate, InitialConversationItem>>

InitializeSessionSends == <<SessionUpdate, InitialConversationItem, ResponseCreate>>

initializeSession ==
    /\ initTimer = "armed"
    /\ initTimer' = "fired"
    /\ lastEvent' = [src |-> "timer", type |-> "initializeSession"]
    /\ sent' = InitializeSessionSends
    /\ UNCHANGED <<sessionVars, pending, truncated, itemStart>>
    /\ UNCHANGED <<variant, other, openAiWsState, connectionState, closeCalls>>

\* --------------------------------------- openAiWs.on('error'), on('close')
\* What the handlers do to the telephony websocket: they only log.
ConnectionStateAfterOpenAiWsDown == connectionState

\* A transport error, before or after the open: the socket starts closing
\* and the handler runs.
OpenAiWsOnError ==
    /\ openAiWsState \in {"CONNECTING", "OPEN"}
    /\ openAiWsState' = "CLOSING"
    /\ connectionState' = ConnectionStateAfterOpenAiWsDown
    /\ lastEvent' = [src |-> "openai", type |-> "ws_error", was |-> openAiWsState]
    /\ NoEffect
    /\ UNCHANGED <<variant, other, initTimer, closeCalls>>

\* The socket is closed: by the peer, after an error, or after close().
OpenAiWsOnClose ==
    /\ openAiWsState \in {"OPEN", "CLOSING"}
    /\ openAiWsState' = "CLOSED"
    /\ connectionState' = ConnectionStateAfterOpenAiWsDown
    /\ lastEvent' = [src |-> "openai", type |-> "ws_close"]
    /\ NoEffect
    /\ UNCHANGED <<variant, other, initTimer, closeCalls>>

\* ------------------------------------------------ connection.on('message')
\* Mutant: the frame is forwarded whatever the readyState.
MediaSends_Unguarded(ev) == <<AudioAppend(ev.payload)>>

\* if (openAiWs.readyState === WebSocket.OPEN) openAiWs.send(audioAppend)
MediaSends(ev) ==
    IF openAiWsState = "OPEN" THEN <<AudioAppend(ev.payload)>> ELSE <<>>

\* Mutant: a media event restarts the clock.
LatestMediaTimestampAfterMedia_Restart(ev) == ev.timestamp - ev.timestamp

\* latestMediaTimestamp = data.media.timestamp
LatestMediaTimestampAfterMedia(ev) == ev.timestamp

\* case 'media'
handleMedia(ev) ==
    /\ latestMediaTimestamp' = LatestMediaTimestampAfterMedia(ev)
    /\ sent' = MediaSends(ev)
    /\ UNCHANGED <<streamSid, lastAssistantItem, markQueue, responseStartTimestampTwilio,
                   pending, truncated, itemStart>>

\* Mutant: a new stream keeps the response start of the old one.
ResponseStartAfterStart_Kept == responseStartTimestampTwilio

\* responseStartTimestampTwilio = null
ResponseStartAfterStart == NullTs

\* Mutant: a new stream keeps the clock of the old one.
LatestMediaTimestampAfterStart_Kept == latestMediaTimestamp

\* latestMediaTimestamp = 0
LatestMediaTimestampAfterStart == 0

\* Mutant: a new stream drops the marks of the old one.
MarkQueueAfterStart_Cleared == <<>>

\* case 'start' does not assign markQueue.
MarkQueueAfterStart == markQueue

\* case 'start'
handleStart(ev) ==
    /\ streamSid' = ev.streamSid
    /\ responseStartTimestampTwilio' = ResponseStartAfterStart
    /\ latestMediaTimestamp' = LatestMediaTimestampAfterStart
    /\ markQueue' = MarkQueueAfterStart
    /\ sent' = <<>>
    /\ UNCHANGED <<lastAssistantItem, pending, truncated, itemStart>>

\* Mutant: an acknowledgment empties the queue.
MarkQueueAfterMark_Clear == <<>>

\* if (markQueue.length > 0) markQueue.shift()
MarkQueueAfterMark ==
    IF Len(markQueue) > 0 THEN Tail(markQueue) ELSE markQueue

\* case 'mark'
handleMark ==
    /\ markQueue' = MarkQueueAfterMark
    /\ sent' = <<>>
    /\ UNCHANGED <<streamSid, latestMediaTimestamp, lastAssistantItem,
                   responseStartTimestampTwilio, pending, truncated, itemStart>>

\* Mutant: any other event is taken for an acknowledgment.
handleOtherEvent_AsMark == handleMark

\* default: console.log('Received non-media event:', data.event)
handleOtherEvent == NoEffect

ConnectionOnMessage(ev) ==
    /\ connectionState = "OPEN"
    /\ ~EventLoopBusy
    /\ lastEvent' = ev
    /\ CASE ev.type = "media" -> handleMedia(ev)
         [] ev.type = "start" -> handleStart(ev)
         [] ev.type = "mark" -> handleMark
         [] OTHER -> handleOtherEvent
    /\ UNCHANGED <<variant, other, openAiWsState, connectionState, initTimer, closeCalls>>

\* -------------------------------------------------- connection.on('close')
\* if (openAiWs.readyState === WebSocket.OPEN) openAiWs.close()
ClosesOpenAiWs == openAiWsState = "OPEN"

ConnectionOnClose ==
    /\ connectionState = "OPEN"
    /\ connectionState' = "CLOSED"
    /\ openAiWsState' = IF ClosesOpenAiWs THEN "CLOSING" ELSE openAiWsState
    /\ closeCalls' = IF ClosesOpenAiWs THEN closeCalls + 1 ELSE closeCalls
    /\ lastEvent' = [src |-> "twilio", type |-> "ws_close", was |-> openAiWsState]
    /\ NoEffect
    /\ UNCHANGED <<variant, other, initTimer>>

\* ------------------------------------------------------------ specifications
\* The outcomes of an awaited provider call: it returns a result, it fails
\* inside its own try (network, HTTP status), or its promise rejects before
\* the try is entered (bestBuyGeneralSearch maps over args.searchTerms first).
Outcomes(p) ==
    IF variant = "A" /\ p.name = "bestBuyGeneralSearch"
    THEN {"ok", "fail", "throws"}
    ELSE {"ok", "fail"}

\* One tool call that awaits in every variant.
PerplexityCall == Done(<<FunctionCall("fetchPerplexityResponse", "{}", "call_1", "completed")>>)

\* The session with both websockets' lifecycles, the whole audio and
\* telephony alphabet and one tool call.
SessionOpenAiEvents ==
    AudioEvents \cup {ErrorEvent, SessionCreated, UnparseableOpenAi, DoneNoOutput,
                      PerplexityCall}
SessionTwilioEvents ==
    StreamEvents \cup {Stop, Dtmf, UnparseableTwilio}

Next ==
    \/ OpenAiWsOnOpen
    \/ initializeSession
    \/ \E ev \in SessionOpenAiEvents : OpenAiWsOnMessage(ev)
    \/ \E p \in pending : \E outcome \in Outcomes(p) : ProviderSettles(p, outcome)
    \/ OpenAiWsOnError
    \/ OpenAiWsOnClose
    \/ \E ev \in SessionTwilioEvents : ConnectionOnMessage(ev)
    \/ ConnectionOnClose

Spec == Init /\ [][Next]_vars

\* The same with the scheduling the runtime guarantees to a timer: once
\* armed by setTimeout, the callback runs.
SpecLive == Spec /\ WF_vars(initializeSession)

\* The open session with the history of every item recorded, and peers that
\* keep to their protocols: every delta carries its item id, and the stream
\* starts once, before its media and marks.
ConformantAudioEvents == {ev \in AudioEvents : ev = SpeechStarted \/ ev.item_id # Null}
ConformantStreamEvents ==
    {ev \in StreamEvents : ev.type = "start" <=> streamSid = Null}

NextHistory ==
    \/ OpenAiWsOnOpen
    \/ initializeSession
    \/ \E ev \in ConformantAudioEvents : OpenAiWsOnMessage(ev)
    \/ \E ev \in ConformantStreamEvents : ConnectionOnMessage(ev)

SpecHistory == InitHistory /\ [][NextHistory]_vars

\* Every variant with the whole tool alphabet, the lifecycles, and of the
\* audio side one item and the caller's media.
ToolsOpenAiEvents ==
    ToolEvents \cup {Delta("QUJD", "item_A"), SpeechStarted, ErrorEvent}

NextTools ==
    \/ OpenAiWsOnOpen
    \/ initializeSession
    \/ \E ev \in ToolsOpenAiEvents : OpenAiWsOnMessage(ev)
    \/ \E p \in pending : \E outcome \in Outcomes(p) : ProviderSettles(p, outcome)
    \/ OpenAiWsOnError
    \/ OpenAiWsOnClose
    \/ \E ev \in MediaEvents : ConnectionOnMessage(ev)
    \/ ConnectionOnClose

SpecTools == InitTools /\ [][NextTools]_vars

\* The same with the scheduling the runtime guarantees to a suspended handler:
\* when the provider's promise settles, the handler awaiting it resumes.
ProviderSettlesSome ==
    \E p \in pending : \E outcome \in Outcomes(p) : ProviderSettles(p, outcome)

SpecToolsLive == SpecTools /\ WF_vars(ProviderSettlesSome)

\* ---------------------------------------------------- two concurrent sessions
\* Every '/media-stream' connection runs the handler anew, with its own
\* closure.  The model keeps the closure of the session whose handler runs in
\* the variables and that of the other session in `other`; the event loop
\* turning to the other session's sockets exchanges the two.

\* Mutant: markQueue declared at module level, one array for all sessions.
SharedAcrossSessions_MarkQueue == {"markQueue"}

\* The session variables declared outside the handler, shared by the
\* sessions: none, the five `let`s and openAiWs are inside it.
SharedAcrossSessions == {}

\* The closure of the session whose handler runs.
ThisSession ==
    [streamSid |-> streamSid, latestMediaTimestamp |-> latestMediaTimestamp,
     lastAssistantItem |-> lastAssistantItem, markQueue |-> markQueue,
     responseStartTimestampTwilio |-> responseStartTimestampTwilio,
     openAiWsState |-> openAiWsState, connectionState |-> connectionState,
     initTimer |-> initTimer]

\* What the other session's handlers would read: its own closure, and the
\* shared variables.
OtherSession ==
    [f \in DOMAIN other |-> IF f \in SharedAcrossSessions THEN ThisSession[f] ELSE other[f]]

SwitchSession ==
    /\ pending = {}
    /\ lastEvent' = [src |-> "server", type |-> "switch"]
    /\ sent' = <<>>
    /\ streamSid' = OtherSession.streamSid
    /\ latestMediaTimestamp' = OtherSession.latestMediaTimestamp
    /\ lastAssistantItem' = OtherSession.lastAssistantItem
    /\ markQueue' = OtherSession.markQueue
    /\ responseStartTimestampTwilio' = OtherSession.responseStartTimestampTwilio
    /\ openAiWsState' = OtherSession.openAiWsState
    /\ connectionState' = OtherSession.connectionState
    /\ initTimer' = OtherSession.initTimer
    /\ other' = ThisSession
    /\ UNCHANGED <<variant, pending, closeCalls, truncated, itemStart>>

\* The events of the two sessions: each stream has its own identifier.
TwoSessionsOpenAiEvents == {Delta("QUJD", "item_A"), SpeechStarted}
TwoSessionsTwilioEvents ==
    {Media(t, "ulaw_1") : t \in latestMediaTimestamp..MaxTs}
    \cup {Start("MZ1"), Start("MZ2"), Mark}

NextTwoSessions ==
    \/ OpenAiWsOnOpen
    \/ \E ev \in TwoSessionsOpenAiEvents : OpenAiWsOnMessage(ev)
    \/ \E ev \in TwoSessionsTwilioEvents : ConnectionOnMessage(ev)
    \/ SwitchSession

SpecTwoSessions == Init /\ [][NextTwoSessions]_vars

\* ------------------------------------------------------- one stream epoch
\* The first audio fragment has been forwarded to the telephony side.
FragmentForwarded == \E i \in DOMAIN itemStart : itemStart[i] # NullTs

\* The open session, with the history recorded, whose telephony side sends
\* no start event once the first fragment has been forwarded.
OneEpochStreamEvents ==
    {ev \in StreamEvents : ev.type = "start" => ~FragmentForwarded}

NextOneEpoch ==
    \/ OpenAiWsOnOpen
    \/ \E ev \in ConformantAudioEvents : OpenAiWsOnMessage(ev)
    \/ \E ev \in OneEpochStreamEvents : ConnectionOnMessage(ev)

SpecOneEpoch == InitHistory /\ [][NextOneEpoch]_vars

\* ------------------------------------------------------- malformed messages
\* A media event whose media object has a timestamp and no payload.
MediaNoPayload(timestamp) == Media(timestamp, Undefined)

\* The open session with peers that also send what the protocols do not
\* allow: text JSON.parse rejects, and media events without a payload.
MalformedOpenAiEvents == {Delta("QUJD", "item_A"), SpeechStarted, UnparseableOpenAi}
MalformedTwilioEvents ==
    StreamEvents \cup {UnparseableTwilio}
    \cup {MediaNoPayload(t) : t \in latestMediaTimestamp..MaxTs}

NextMalformed ==
    \/ OpenAiWsOnOpen
    \/ \E ev \in MalformedOpenAiEvents : OpenAiWsOnMessage(ev)
    \/ \E ev \in MalformedTwilioEvents : ConnectionOnMessage(ev)

SpecMalformed == Init /\ [][NextMalformed]_vars

\* ------------------------------------------- events during a pending tool call
\* Every variant, with one tool call that awaits and, meanwhile, the audio
\* and telephony events of the session.
AwaitOpenAiEvents == {Delta("QUJD", "item_A"), SpeechStarted, PerplexityCall}

NextAwait ==
    \/ OpenAiWsOnOpen
    \/ \E ev \in AwaitOpenAiEvents : OpenAiWsOnMessage(ev)
    \/ \E p \in pending : \E outcome \in Outcomes(p) : ProviderSettles(p, outcome)
    \/ \E ev \in StreamEvents : ConnectionOnMessage(ev)

SpecAwait == InitTools /\ [][NextAwait]_vars

\* =================================================================== claims
IsTruncate(m) == m.type = "conversation.item.truncate"

\* The truncate the interruption sends for item `item` after `elapsed` ms.
Truncate(item, elapsed) ==
    [to |-> "openAiWs", type |-> "conversation.item.truncate", item_id |-> item,
     content_index |-> 0, audio_end_ms |-> elapsed]

\* C1: a conversation.item.truncate is sent only by the handling of a
\* caller-speech-detected event, and only if, when that handling starts,
\* lastAssistantItem is non-null, markQueue is non-empty and
\* responseStartTimestampTwilio is non-null.
C1_TruncateOnlyWhenResponding ==
    [][SelectSeq(sent', IsTruncate) # <<>> =>
          /\ lastEvent' = SpeechStarted
          /\ lastAssistantItem # Null
          /\ Len(markQueue) > 0
          /\ responseStartTimestampTwilio # NullTs]_vars

\* A caller-speech-detected event has been handled and a truncate was sent.
C1_Witness ==
    /\ lastEvent = SpeechStarted
    /\ SelectSeq(sent, IsTruncate) # <<>>
    /\ markQueue = <<>>

\* The reset every interruption ends with.
ResetToIdle ==
    /\ markQueue' = <<>>
    /\ lastAssistantItem' = Null
    /\ responseStartTimestampTwilio' = NullTs

\* C2 as stated: a caller-speech-detected event handled while
\* responseStartTimestampTwilio is set and markQueue is non-empty sends
\* exactly one truncate, for lastAssistantItem and with audio_end_ms =
\* latestMediaTimestamp - responseStartTimestampTwilio, then exactly one
\* clear, and resets markQueue, lastAssistantItem and the start timestamp.
C2_Original ==
    [][(/\ lastEvent' = SpeechStarted
        /\ responseStartTimestampTwilio # NullTs
        /\ Len(markQueue) > 0) =>
          /\ sent' = <<Truncate(lastAssistantItem,
                                latestMediaTimestamp - responseStartTimestampTwilio),
                       [to |-> "connection", type |-> "clear", streamSid |-> streamSid]>>
          /\ ResetToIdle]_vars

\* C2 as amended: the same, with the truncate sent exactly when
\* lastAssistantItem is non-null; with lastAssistantItem null the handling
\* sends the clear alone and resets all the same.
C2_InterruptionTruncatesAndClears ==
    [][(/\ lastEvent' = SpeechStarted
        /\ responseStartTimestampTwilio # NullTs
        /\ Len(markQueue) > 0) =>
          /\ sent' = (IF lastAssistantItem # Null
                      THEN <<Truncate(lastAssistantItem,
                                      latestMediaTimestamp - responseStartTimestampTwilio)>>
                      ELSE <<>>)
                     \o <<[to |-> "connection", type |-> "clear", streamSid |-> streamSid]>>
          /\ ResetToIdle]_vars

\* An interruption one timestamp unit into a response that started after the
\* stream did: truncate with audio_end_ms = 1, then clear, then Idle.
C2_Witness ==
    /\ lastEvent = SpeechStarted
    /\ latestMediaTimestamp = 2
    /\ \E i \in Items :
          sent = <<Truncate(i, 1),
                   [to |-> "connection", type |-> "clear", streamSid |-> streamSid]>>
    /\ markQueue = <<>>
    /\ lastAssistantItem = Null
    /\ responseStartTimestampTwilio = NullTs

\* C3: a caller-speech-detected event handled while markQueue is empty or
\* responseStartTimestampTwilio is null sends nothing (no truncate, no clear)
\* and leaves markQueue, lastAssistantItem, responseStartTimestampTwilio and
\* latestMediaTimestamp as they were.
C3_SpeechWhileIdleIsNoOp ==
    [][(/\ lastEvent' = SpeechStarted
        /\ (Len(markQueue) = 0 \/ responseStartTimestampTwilio = NullTs)) =>
          /\ sent' = <<>>
          /\ UNCHANGED <<markQueue, lastAssistantItem, responseStartTimestampTwilio,
                         latestMediaTimestamp, streamSid>>]_vars

\* A caller-speech-detected event was handled as a no-op although a response
\* start is recorded, because no mark is outstanding.
C3_Witness ==
    /\ lastEvent = SpeechStarted
    /\ sent = <<>>
    /\ markQueue = <<>>
    /\ responseStartTimestampTwilio # NullTs
    /\ lastAssistantItem # Null

IsMedia(m) == m.to = "connection" /\ m.type = "media"

\* C4: once a truncate has been sent for an item, no audio fragment of that
\* item is forwarded to the telephony websocket.
C4_NoFragmentOfTruncatedItem ==
    (/\ lastEvent.src = "openai"
     /\ lastEvent.type = "response.audio.delta"
     /\ SelectSeq(sent, IsMedia) # <<>>)
        => lastEvent.item_id \notin truncated

\* C5: the audio_end_ms of every truncate sent equals latestMediaTimestamp
\* minus the latestMediaTimestamp at which the first audio fragment of the
\* item it names was forwarded.  Stated for the items whose first fragment
\* was forwarded after timestamp 0, which keeps the falsy 0 of the start
\* timestamp (C23) out of it.
C5_ElapsedFromFirstFragmentOfItem ==
    (lastEvent = SpeechStarted) =>
        \A k \in 1..Len(sent) :
            (IsTruncate(sent[k]) /\ itemStart[sent[k].item_id] > 0) =>
                sent[k].audio_end_ms = latestMediaTimestamp - itemStart[sent[k].item_id]

\* C6: the handling of the telephony websocket's close always leaves the
\* model websocket closing or closed, its close having been requested at
\* most once.
C6_TelephonyCloseClosesModelOnce ==
    [][(lastEvent'.src = "twilio" /\ lastEvent'.type = "ws_close") =>
          /\ openAiWsState' \in {"CLOSING", "CLOSED"}
          /\ closeCalls' <= 1]_vars

\* C7: in no reachable state is one websocket OPEN while the other is CLOSED.
C7_PairedTeardown ==
    /\ connectionState = "CLOSED" => openAiWsState # "OPEN"
    /\ openAiWsState = "CLOSED" => connectionState # "OPEN"

\* C8: when the model websocket closes or reports a transport error, the
\* close of the telephony websocket is initiated.
C8_OpenAiWsDownClosesConnection ==
    [][(lastEvent'.src = "openai" /\ lastEvent'.type \in {"ws_error", "ws_close"})
          => connectionState' # "OPEN"]_vars

\* C9: when the model websocket fails before it opened, the telephony side
\* is told (something is sent to it) or its websocket is closed.
C9_SetupErrorReported ==
    (/\ lastEvent.src = "openai"
     /\ lastEvent.type = "ws_error"
     /\ lastEvent.was = "CONNECTING")
        => (connectionState # "OPEN" \/ ToTwilio # <<>>)

\* C10: the handling of a response.done that asks for the unregistered tool
\* "doesNotExist" sends a function_call_output with the call's id.
C10_UnknownToolGetsErrorResult ==
    (lastEvent = Done(<<FunctionCall("doesNotExist", "{}", "call_1", "completed")>>))
        => \E k \in 1..Len(sent) :
              /\ sent[k].type = "conversation.item.create"
              /\ sent[k].item = "function_call_output"
              /\ sent[k].call_id = "call_1"

\* ------------------------------------------------------------- tool claims
IsFunctionCallOutput(m) ==
    m.type = "conversation.item.create" /\ m.item = "function_call_output"
\* The last handler sent a function_call_output for call id c.
HasOutputFor(c) ==
    \E k \in 1..Len(sent) : IsFunctionCallOutput(sent[k]) /\ sent[k].call_id = c
\* The last handler ran for a response.done and found a function call.
ToolCallRequested ==
    lastEvent.type = "response.done" /\ FoundCalls(lastEvent) # <<>>

\* C11: the handling of a response.done whose function call carries an
\* argument payload that JSON.parse rejects sends a function_call_output
\* with the call's id.
C11_ParseFailureGetsErrorResult ==
    (lastEvent = Done(<<FunctionCall("fetchPerplexityResponse", "{", "call_1", "completed")>>))
        => HasOutputFor("call_1")

\* C12: when the provider call of a registered tool fails or the tool's
\* handler throws, the resumed handler sends a function_call_output for that
\* call, and both websockets are left as they were.
C12_ProviderFailureGetsApology ==
    (lastEvent.src = "provider" /\ lastEvent.type \in {"fail", "throws"})
        => HasOutputFor(lastEvent.call_id)

\* C13: for a call of fetchPerplexityResponse (registered in every variant)
\* with a parseable payload and a provider that returns, every response.create
\* the dispatch sends comes after a function_call_output sent by the same
\* handler run: never before the result and never without it.
C13_ResponseCreateAfterResult ==
    (\/ /\ ToolCallRequested
        /\ Head(FoundCalls(lastEvent)).name = "fetchPerplexityResponse"
        /\ ParseOk(Head(FoundCalls(lastEvent)).arguments)
     \/ lastEvent.src = "provider" /\ lastEvent.type = "ok") =>
        \A k \in 1..Len(sent) :
            sent[k] = ResponseCreate =>
                \E j \in 1..(k - 1) : IsFunctionCallOutput(sent[j])

\* C14: once a response.done that asks for a tool call has been handled,
\* then, as long as both websockets stay open and the provider's promise
\* settles, a function_call_output for that call is eventually sent.
C14_ToolCallEventuallyAnswered ==
    \A c \in {"call_1", "call_2"} :
        (ToolCallRequested /\ Head(FoundCalls(lastEvent)).call_id = c)
            ~> (\/ HasOutputFor(c)
                \/ openAiWsState # "OPEN"
                \/ connectionState # "OPEN")

\* C15: a handler run sends at most one function_call_output.  It is sent
\* either by the handling of a response.done, with the call_id of the function
\* call found there, which is then not left pending; or by the continuation
\* of a pending call, with that call's call_id, which is pending no longer.
C15_ResultCorrelatedOncePerCall ==
    [][\A k \in 1..Len(sent') :
          IsFunctionCallOutput(sent'[k]) =>
             /\ Len(SelectSeq(sent', IsFunctionCallOutput)) = 1
             /\ \/ /\ lastEvent'.type = "response.done"
                   /\ FoundCalls(lastEvent') # <<>>
                   /\ sent'[k].call_id = Head(FoundCalls(lastEvent')).call_id
                   /\ pending' = pending
                \/ /\ lastEvent'.src = "provider"
                   /\ sent'[k].call_id = lastEvent'.call_id
                   /\ \E p \in pending : p.call_id = sent'[k].call_id /\ p \notin pending']_vars

\* The provider of the call call_2 returned and its result was sent.
C15_Witness ==
    /\ lastEvent.src = "provider"
    /\ lastEvent.call_id = "call_2"
    /\ HasOutputFor("call_2")

\* ------------------------------------------------------------ relay claims
\* C16: the handling of a telephony mark event removes exactly the head of
\* markQueue when it is non-empty and leaves it empty otherwise; it sends
\* nothing and changes no other closure variable.  (The length of a sequence
\* is never negative; the tokens are all the string 'responsePart'.)
C16_MarkPopsHead ==
    [][lastEvent' = Mark =>
          /\ IF Len(markQueue) > 0
             THEN /\ markQueue' = Tail(markQueue)
                  /\ Len(markQueue') = Len(markQueue) - 1
             ELSE markQueue' = markQueue
          /\ sent' = <<>>
          /\ UNCHANGED <<streamSid, latestMediaTimestamp, lastAssistantItem,
                         responseStartTimestampTwilio, pending>>]_vars

\* A mark was acknowledged while two were outstanding: one is left.
C16_Witness ==
    /\ lastEvent = Mark
    /\ Len(markQueue) = 1

\* C17: every step that forwards an audio fragment to the telephony
\* websocket lengthens markQueue by exactly one.
C17_FragmentPushesMark ==
    [][SelectSeq(sent', IsMedia) # <<>> => Len(markQueue') = Len(markQueue) + 1]_vars

IsAudioAppend(m) == m.type = "input_audio_buffer.append"
IsDeltaEvent(ev) == ev.src = "openai" /\ ev.type = "response.audio.delta"
IsMediaEvent(ev) == ev.src = "twilio" /\ ev.type = "media"

\* C18: a non-empty audio fragment is forwarded by the very step that
\* receives it, exactly once, first among that step's sends and with its
\* payload decoded and encoded again; no other step sends audio to the
\* telephony websocket.  So the fragments go out in the order they came in,
\* none twice, whether or not a tool call is pending.
C18_FragmentsForwardedInOrder ==
    [][/\ (IsDeltaEvent(lastEvent') /\ lastEvent'.delta # "") =>
             /\ SelectSeq(sent', IsMedia) =
                   <<[to |-> "connection", type |-> "media", streamSid |-> streamSid,
                      payload |-> Reencode(lastEvent'.delta)]>>
             /\ IsMedia(sent'[1])
       /\ SelectSeq(sent', IsMedia) # <<>> => IsDeltaEvent(lastEvent')]_vars

\* A fragment was forwarded while a tool call was awaiting its provider.
C18_Witness ==
    /\ IsDeltaEvent(lastEvent)
    /\ pending # {}
    /\ SelectSeq(sent, IsMedia) # <<>>

\* C19: every input_audio_buffer.append sent to the model websocket is sent
\* by the step that handles a telephony media event, alone, and carries that
\* event's payload: the frames forwarded go out in the order they came in.
C19_FramesForwardedInOrder ==
    [][SelectSeq(sent', IsAudioAppend) # <<>> =>
          /\ IsMediaEvent(lastEvent')
          /\ Len(sent') = 1
          /\ sent'[1].to = "openAiWs"
          /\ sent'[1].audio = lastEvent'.payload]_vars

\* The frame ulaw_2, with a timestamp after 0, was forwarded as ulaw_2.
C19_Witness ==
    /\ IsMediaEvent(lastEvent)
    /\ lastEvent.payload = "ulaw_2"
    /\ lastEvent.timestamp > 0
    /\ sent = <<[to |-> "openAiWs", type |-> "input_audio_buffer.append", audio |-> "ulaw_2"]>>

\* C20: the handling of a telephony media event sets latestMediaTimestamp to
\* the event's timestamp; it sends one input_audio_buffer.append with the
\* event's payload when the model websocket is OPEN and nothing otherwise;
\* it changes nothing else, so a dropped frame is kept nowhere.
C20_MediaUpdatesAndForwardsWhenOpen ==
    [][IsMediaEvent(lastEvent') =>
          /\ latestMediaTimestamp' = lastEvent'.timestamp
          /\ sent' = IF openAiWsState = "OPEN"
                     THEN <<[to |-> "openAiWs", type |-> "input_audio_buffer.append",
                             audio |-> lastEvent'.payload]>>
                     ELSE <<>>
          /\ UNCHANGED <<streamSid, lastAssistantItem, markQueue,
                         responseStartTimestampTwilio, pending, openAiWsState,
                         connectionState, initTimer>>]_vars

\* A frame with timestamp 2 arrived while the model websocket was still
\* connecting: the timestamp is taken, the frame is dropped.
C20_Witness ==
    /\ IsMediaEvent(lastEvent)
    /\ openAiWsState = "CONNECTING"
    /\ latestMediaTimestamp = 2
    /\ sent = <<>>

\* -------------------------------------------------------- timestamp claims
IsStartEvent(ev) == ev.src = "twilio" /\ ev.type = "start"

\* C21 as stated: no step assigns latestMediaTimestamp a value smaller than
\* its current one.
C21_Original ==
    [][latestMediaTimestamp' >= latestMediaTimestamp]_vars

\* C21 as amended: latestMediaTimestamp is assigned only by the handling of
\* a media event, which gives it the event's timestamp, and by the handling
\* of a start event, which gives it 0; it becomes smaller only at a start.
C21_TimestampChangesOnlyAtMediaAndStart ==
    [][/\ latestMediaTimestamp' # latestMediaTimestamp =>
             \/ IsMediaEvent(lastEvent') /\ latestMediaTimestamp' = lastEvent'.timestamp
             \/ IsStartEvent(lastEvent') /\ latestMediaTimestamp' = 0
       /\ latestMediaTimestamp' < latestMediaTimestamp => IsStartEvent(lastEvent')
       /\ IsMediaEvent(lastEvent') => latestMediaTimestamp' = lastEvent'.timestamp
       /\ IsStartEvent(lastEvent') => latestMediaTimestamp' = 0]_vars

\* A start event was handled on a stream that had already started (marks of
\* it are outstanding): the timestamp is 0 again.
C21_Witness ==
    /\ IsStartEvent(lastEvent)
    /\ Len(markQueue) > 0
    /\ latestMediaTimestamp = 0

\* C22: the audio_end_ms of every truncate sent is at least 0.
C22_ElapsedNonNegative ==
    \A k \in 1..Len(sent) : IsTruncate(sent[k]) => sent[k].audio_end_ms >= 0

\* A truncate with audio_end_ms 0 was sent at timestamp 1: the response had
\* started at the timestamp at which it was interrupted.
C22_Witness ==
    /\ lastEvent = SpeechStarted
    /\ \E k \in 1..Len(sent) : IsTruncate(sent[k]) /\ sent[k].audio_end_ms = 0
    /\ latestMediaTimestamp = 1

\* C23: a fragment handled while a response start is recorded does not
\* overwrite it, whatever the recorded value, 0 included.
C23_StartSetOncePerResponse ==
    [][(IsDeltaEvent(lastEvent') /\ responseStartTimestampTwilio # NullTs) =>
          responseStartTimestampTwilio' = responseStartTimestampTwilio]_vars

\* C24: when a response.done has been handled, the response is over and no
\* response start is recorded.
C24_StartClearedOnCompletion ==
    lastEvent.type = "response.done" => responseStartTimestampTwilio = NullTs

\* -------------------------------------------------------- lifecycle claims
\* C25: the handling of a telephony stop event while the model websocket is
\* OPEN starts closing it.
C25_StopClosesOpenAiWs ==
    [][(lastEvent' = Stop /\ openAiWsState = "OPEN") => openAiWsState' # "OPEN"]_vars

\* C26: the handling of a telephony event of an unrecognized type (dtmf, for
\* which the switch has no case) sends nothing, changes no closure variable and closes neither
\* websocket.
C26_UnrecognizedEventIgnored ==
    [][lastEvent' = Dtmf =>
          /\ sent' = <<>>
          /\ UNCHANGED <<streamSid, latestMediaTimestamp, lastAssistantItem, markQueue,
                         responseStartTimestampTwilio, pending, openAiWsState,
                         connectionState, initTimer, closeCalls>>]_vars

\* A dtmf event was handled in the middle of a response: marks outstanding,
\* response start recorded, all left in place.
C26_Witness ==
    /\ lastEvent = Dtmf
    /\ Len(markQueue) = 2
    /\ responseStartTimestampTwilio # NullTs
    /\ lastAssistantItem # Null

IsSessionUpdate(m) == m.type = "session.update"

\* C27: session.update is sent only by the timer callback the open handler
\* armed, which sends session.update, the initial conversation item and
\* response.create in that order and runs once; once armed, it does run.
C27_InitializationSentOnceInOrder ==
    /\ [][SelectSeq(sent', IsSessionUpdate) # <<>> =>
             /\ sent' = <<[to |-> "openAiWs", type |-> "session.update"],
                          [to |-> "openAiWs", type |-> "conversation.item.create",
                           item |-> "message"],
                          [to |-> "openAiWs", type |-> "response.create"]>>
             /\ lastEvent'.src = "timer"
             /\ initTimer = "armed"
             /\ initTimer' = "fired"]_vars
    /\ [][initTimer = "fired" => initTimer' = "fired"]_vars
    /\ [][(lastEvent'.src = "openai" /\ lastEvent'.type = "open") =>
             initTimer = "unset" /\ initTimer' = "armed"]_vars
    /\ (initTimer = "armed") ~> (initTimer = "fired")

\* The timer callback has run and sent the three messages.
C27_Witness ==
    /\ lastEvent = [src |-> "timer", type |-> "initializeSession"]
    /\ Len(sent) = 3
    /\ IsSessionUpdate(sent[1])
    /\ initTimer = "fired"

\* C28: no handler sends on a websocket that is closed.
C28_NoSendOnClosedWebsocket ==
    \A k \in 1..Len(sent) :
        /\ sent[k].to = "connection" => connectionState # "CLOSED"
        /\ sent[k].to = "openAiWs" => openAiWsState # "CLOSED"

\* ------------------------------------------------------ concurrency claims
\* C30: a handler run that is split by an await of a tool provider neither
\* writes nor reads the closure variables: the step that suspends it and the
\* step that resumes it leave them unchanged, and what the resumed handler
\* sends is made of the call's id and the provider's outcome alone.
C30_NoSessionStateAcrossAwait ==
    [][(pending' # pending \/ lastEvent'.src = "provider") =>
          /\ UNCHANGED <<streamSid, latestMediaTimestamp, lastAssistantItem, markQueue,
                         responseStartTimestampTwilio>>
          /\ lastEvent'.src = "provider" =>
                \A k \in 1..Len(sent') :
                    \/ sent'[k] = [to |-> "openAiWs", type |-> "response.create"]
                    \/ /\ IsFunctionCallOutput(sent'[k])
                       /\ sent'[k].call_id = lastEvent'.call_id
                       /\ sent'[k].output \in {"result", "apology"}]_vars

\* A suspended handler resumed after other handlers had moved the clock and
\* recorded a response start and an item.
C30_Witness ==
    /\ lastEvent.src = "provider"
    /\ latestMediaTimestamp = 2
    /\ responseStartTimestampTwilio # NullTs
    /\ lastAssistantItem # Null

C32_ErrorEventChangesNothing ==
    /\ [][lastEvent'.type \in {"error", "session.created"} =>
             /\ sent' = <<>>
             /\ UNCHANGED <<streamSid, latestMediaTimestamp, lastAssistantItem, markQueue,
                            responseStartTimestampTwilio, pending, openAiWsState,
                            connectionState, initTimer, closeCalls>>]_vars
    /\ [][(openAiWsState' # openAiWsState \/ connectionState' # connectionState) =>
             lastEvent'.type \in {"open", "ws_error", "ws_close"}]_vars

\* The model reported an error in the middle of a response: the marks, the
\* response start and the item are kept, and both websockets are open.
C32_Witness ==
    /\ lastEvent = ErrorEvent
    /\ Len(markQueue) > 0
    /\ responseStartTimestampTwilio # NullTs
    /\ lastAssistantItem # Null
    /\ openAiWsState = "OPEN"
    /\ connectionState = "OPEN"

\* C33: the handling of a telephony start event sets streamSid to the
\* event's stream identifier, latestMediaTimestamp to 0 and
\* responseStartTimestampTwilio to null.
C33_StartRecordsStreamAndResets ==
    [][IsStartEvent(lastEvent') =>
          /\ streamSid' = lastEvent'.streamSid
          /\ latestMediaTimestamp' = 0
          /\ responseStartTimestampTwilio' = NullTs]_vars

\* A start event handled in the middle of a response: an item is being
\* played and a mark is outstanding, so the clock had run and the response
\* start had been set on the stream before.
C33_Witness ==
    /\ IsStartEvent(lastEvent)
    /\ streamSid = "MZ1"
    /\ latestMediaTimestamp = 0
    /\ responseStartTimestampTwilio = NullTs
    /\ lastAssistantItem # Null
    /\ Len(markQueue) = 1

\* C38: the handling of a telephony start event leaves markQueue and
\* lastAssistantItem as they were: the marks queued before it stay queued.
C38_StartKeepsMarksAndItem ==
    [][IsStartEvent(lastEvent') => UNCHANGED <<markQueue, lastAssistantItem>>]_vars

\* A start event handled with two marks outstanding, which are still queued.
C38_Witness ==
    /\ IsStartEvent(lastEvent)
    /\ Len(markQueue) = 2
    /\ lastAssistantItem = "item_B"
    /\ responseStartTimestampTwilio = NullTs

\* A message that cannot be parsed, or that lacks a field its handler reads.
IsMalformed(ev) ==
    \/ ev.type = "unparseable"
    \/ ev.type = "media" /\ ev.payload = Undefined

\* C34: the handling of a malformed message of either websocket sends
\* nothing and leaves the closure variables and both websockets' states as
\* they were.
C34_MalformedMessageIgnored ==
    [][IsMalformed(lastEvent') =>
          /\ sent' = <<>>
          /\ UNCHANGED <<streamSid, latestMediaTimestamp, lastAssistantItem, markQueue,
                         responseStartTimestampTwilio, openAiWsState, connectionState>>]_vars

\* A response.done none of whose output entries is a completed function call.
NoCompletedFunctionCall(ev) ==
    /\ ev.src = "openai"
    /\ ev.type = "response.done"
    /\ \A k \in 1..Len(ev.output) :
          ~(ev.output[k].type = "function_call" /\ ev.output[k].status = "completed")

\* C35: the handling of a response.done whose output has no function_call
\* entry, or only function_call entries that are not completed, dispatches no
\* tool call and sends nothing (no tool result, no response.create).
C35_DispatchOnlyCompletedCalls ==
    [][NoCompletedFunctionCall(lastEvent') => sent' = <<>> /\ pending' = pending]_vars

\* C36: no input_audio_buffer.append is sent to the model before the timer
\* callback has sent session.update.
C36_SessionUpdateBeforeAudio ==
    initTimer # "fired" => SelectSeq(sent, IsAudioAppend) = <<>>

IsResponseCreate(m) == m.type = "response.create"
IsResponseDone(ev) == ev.src = "openai" /\ ev.type = "response.done"

\* What one response.done may set off, given the output entries `chosen`
\* that qualify for dispatch: at most one call suspended and at most one
\* function_call_output, both for the first of `chosen`; at most one
\* response.create, sent either in the step that handles the event or, if
\* the handler suspends, in the step that resumes it, never in both.
AtMostOneDispatch(chosen) ==
    /\ Len(SelectSeq(sent', IsResponseCreate)) <= 1
    /\ Len(SelectSeq(sent', IsFunctionCallOutput)) <= 1
    /\ pending \subseteq pending'
    /\ Cardinality(pending' \ pending) <= 1
    /\ \A p \in pending' \ pending :
          chosen # <<>> /\ p.call_id = Head(chosen).call_id /\ p.name = Head(chosen).name
    /\ \A k \in 1..Len(sent') :
          IsFunctionCallOutput(sent'[k]) =>
              chosen # <<>> /\ sent'[k].call_id = Head(chosen).call_id
    /\ (pending' # pending /\ SelectSeq(sent', IsResponseCreate) # <<>>) => variant = "C"

AtMostOneAtResume ==
    /\ Len(SelectSeq(sent', IsResponseCreate)) <= (IF variant = "C" THEN 0 ELSE 1)
    /\ Len(SelectSeq(sent', IsFunctionCallOutput)) <= 1
    /\ pending' = pending \ {[call_id |-> lastEvent'.call_id, name |-> lastEvent'.name]}
    /\ \A k \in 1..Len(sent') :
          IsFunctionCallOutput(sent'[k]) => sent'[k].call_id = lastEvent'.call_id

\* C37 as stated: for one response.done at most one tool call is dispatched,
\* the first function_call entry of its output, and at most one
\* response.create is sent.
C37_Original ==
    /\ [][IsResponseDone(lastEvent') =>
             AtMostOneDispatch(SelectSeq(lastEvent'.output, IsFunctionCall))]_vars
    /\ [][lastEvent'.src = "provider" => AtMostOneAtResume]_vars

\* C37 as amended: the same, the entry dispatched being the first one the
\* handler's find accepts: the first function_call entry in variant A, the
\* first function_call entry with status completed in variants B and C.
C37_AtMostOneDispatchPerResponseDone ==
    /\ [][IsResponseDone(lastEvent') =>
             AtMostOneDispatch(IF variant = "A"
                               THEN SelectSeq(lastEvent'.output, IsFunctionCall)
                               ELSE SelectSeq(lastEvent'.output, IsCompletedFunctionCall))]_vars
    /\ [][lastEvent'.src = "provider" => AtMostOneAtResume]_vars

\* A response.done with two function_call entries, both completed, was
\* handled by variant B: one call, the first, is pending and nothing was sent.
C37_Witness ==
    /\ variant = "B"
    /\ IsResponseDone(lastEvent)
    /\ Len(SelectSeq(lastEvent.output, IsCompletedFunctionCall)) = 2
    /\ pending = {[call_id |-> "call_1", name |-> "fetchPerplexityResponse"]}
    /\ sent = <<>>

\* C39: as long as no telephony start event is handled after the first audio
\* fragment was forwarded, whenever markQueue is non-empty
\* responseStartTimestampTwilio is non-null.
C39_MarksPendingImpliesResponding ==
    Len(markQueue) > 0 => responseStartTimestampTwilio # NullTs

\* The second response after an interruption: a fragment was forwarded, its
\* mark is outstanding and the response start is recorded again.
C39_Witness ==
    /\ IsDeltaEvent(lastEvent)
    /\ truncated # {}
    /\ Len(markQueue) > 0
    /\ responseStartTimestampTwilio # NullTs

IsMark(m) == m.to = "connection" /\ m.type = "mark"

\* C40: a token is pushed onto markQueue exactly in the steps that send a
\* mark to the telephony side; such a step handles an audio fragment, sends
\* the fragment's media message and directly after it the one mark, and
\* pushes the one token.  Every other change of markQueue removes tokens (the
\* head at a mark acknowledgment, all at an interruption), so the queue is
\* never longer than the number of marks sent since the last interruption.
C40_TokenPushedIffMarkSent ==
    [][/\ (Len(markQueue') > Len(markQueue)) <=> (SelectSeq(sent', IsMark) # <<>>)
       /\ SelectSeq(sent', IsMark) # <<>> =>
             /\ IsDeltaEvent(lastEvent')
             /\ Len(sent') = 2
             /\ IsMedia(sent'[1])
             /\ sent'[1].payload = Reencode(lastEvent'.delta)
             /\ IsMark(sent'[2])
             /\ sent'[2].streamSid = streamSid
             /\ markQueue' = Append(markQueue, "responsePart")
       /\ (markQueue' # markQueue /\ SelectSeq(sent', IsMark) = <<>>) =>
             \/ lastEvent' = Mark /\ markQueue' = Tail(markQueue)
             \/ lastEvent' = SpeechStarted /\ markQueue' = <<>>]_vars

\* A second fragment was forwarded while the first one's mark is
\* outstanding: media and mark were sent and two tokens are queued.
C40_Witness ==
    /\ IsDeltaEvent(lastEvent)
    /\ Len(sent) = 2
    /\ IsMark(sent[2])
    /\ Len(markQueue) = 2
    /\ latestMediaTimestamp = 1

====
